---------------------------- MODULE Spec2Model ----------------------------
(***************************************************************************)
(* MediConnect: the symptom_logs table with its row policies, trigger,     *)
(* view and function (supabase schema and the resolution-status            *)
(* migration), the client's API functions (services/api.js) and the        *)
(* History and Triage pages that call them.                                *)
(*                                                                         *)
(* The HTTP backend (FastAPI app behind /api/...) is not part of the       *)
(* sources at hand; its handlers are taken from the written contract and   *)
(* are the definitions whose names start with "backend_".  They reach the  *)
(* table as the calling user, so that the row policies decide what they    *)
(* see and change.                                                         *)
(***************************************************************************)
EXTENDS Integers, Sequences, FiniteSets, TLC

(***************************************************************************)
(* Bounds of the model.                                                    *)
(***************************************************************************)
\* characters typed into the triage form
MaxText == 2
\* rows ever inserted (gen_random_uuid never repeats: ids are 1..MaxRows)
MaxRows == 2
\* SQL statements of the users, or requests of the Triage page, that ever
\* wrote a row; each one runs at a later NOW()
MaxTime == 2
\* API requests that ever wrote a row
MaxApiTime == 3
\* requests that ever wrote a row while the History page is used
MaxHistoryTime == 4
\* requests of login, signup and the pages ever sent by the client
MaxRequests == 3
\* status buttons of the History page ever clicked while calls overlap
MaxClicks == 2

(***************************************************************************)
(* Values.                                                                 *)
(***************************************************************************)
Users == {"A", "B"}

\* SQL NULL in a text column, and a column left out of an INSERT
NULL == "(null)"
DEFAULT == "(default)"

UrgencyLevels == {"Emergency", "Urgent", "Primary Care", "Telehealth", "Self-Care"}

ResolutionStatuses == {"Ongoing", "Resolved", "Improved", "Worsened", "Unknown"}

Ids == 1..MaxRows

\* TEXT values are sequences of characters; " " is white space
Chars == {" ", "x"}

Blank == << >>

(***************************************************************************)
(* State.                                                                  *)
(***************************************************************************)
VARIABLES
    symptom_logs,   \* the table: id -> row, for the rows stored
    next_id,        \* the next gen_random_uuid()
    now,            \* NOW() of the latest statement that wrote a row
    response,       \* what the latest operation returned to its caller
    last_trigger,   \* OLD and NEW of the latest set_updated_at firing
    tp_symptoms,    \* TriagePage: the text in the form
    tp_loading,     \* TriagePage: loading
    tp_result,      \* TriagePage: result; {} is null or undefined
    tp_toast,       \* TriagePage: the latest toast shown
    tp_request,     \* the POST /api/triage/assess in flight, if any
    tp_submitted,   \* the text of the latest submit event, if any
    hp_history,     \* HistoryPage: history
    hp_stats,       \* HistoryPage: stats; {} is null
    hp_loading,     \* HistoryPage: loading
    hp_calls,       \* HistoryPage: the calls of updateResolutionStatus that
                    \* are not over, each at its await
    hp_clicks,      \* HistoryPage: status buttons clicked so far
    hp_searchTerm,  \* HistoryPage: searchTerm
    hp_filterLevel, \* HistoryPage: filterLevel
    dash_stats,     \* Dashboard: stats; {} is null
    dash_recentHistory,     \* Dashboard: recentHistory; {} is undefined
    dash_loading,   \* Dashboard: loading
    ls_token,       \* localStorage mediconnect_token; {} when there is none
    ls_user,        \* localStorage mediconnect_user; {} when there is none
    auth_user,      \* AuthContext: user; {} is null
    auth_isAuthenticated,   \* AuthContext: isAuthenticated
    auth_loading,   \* AuthContext: loading
    auth_toast,     \* AuthContext: the latest toast shown
    location,       \* the path the document shows
    unloading,      \* window.location.href was assigned: the document goes
    wire,           \* the requests of the document that are in flight
    n_sent,         \* requests of login, signup and the pages sent so far
    last_reply,     \* the latest reply a request of the document got
    valid_tokens    \* backend: the tokens it accepts

dbvars == << symptom_logs, next_id, now, response, last_trigger >>

triagevars ==
    << tp_symptoms, tp_loading, tp_result, tp_toast, tp_request, tp_submitted >>

filtervars == << hp_searchTerm, hp_filterLevel >>

historyvars ==
    << hp_history, hp_stats, hp_loading, hp_calls, hp_clicks, filtervars >>

dashvars == << dash_stats, dash_recentHistory, dash_loading >>

sessionvars ==
    << ls_token, ls_user, auth_user, auth_isAuthenticated, auth_loading,
       auth_toast, location, unloading, wire, n_sent, last_reply, valid_tokens >>

(***************************************************************************)
(* Inputs the operations are tried with.                                   *)
(***************************************************************************)
\* confidence is DECIMAL(3,2) in hundredths; {} is NULL
InsertValues ==
    [user_id : Users, symptoms : {<<"x">>}, urgency_level : {"Emergency", NULL},
     explanation : {"rest"}, confidence : {{}},
     resolution_status : {DEFAULT, NULL}]

\* SET column = value of an UPDATE
UpdateAssignments ==
    ({"resolution_status"} \X {"Resolved", NULL, "Bogus"})
        \cup {<<"urgency_level", "Bogus">>, <<"symptoms", <<"x", "x">> >>,
              <<"user_id", "B">>, <<"created_at", 0>>}

Limits == {1, 5}

(***************************************************************************)
(* The table symptom_logs: columns, defaults and constraints.              *)
(* esi_classification, related_symptom_ids and follow_up_date are          *)
(* nullable columns no operation below reads; they are left out.           *)
(***************************************************************************)
\* mutant of the column default: no DEFAULT clause
resolution_status_no_default == NULL

\* ADD COLUMN resolution_status VARCHAR(20) DEFAULT 'Unknown'
resolution_status_default == "Unknown"

\* the row an INSERT of vals builds at time t: id, created_at and updated_at
\* take their defaults
NewRow(vals, id, t) ==
    [id |-> id,
     user_id |-> vals.user_id,
     symptoms |-> vals.symptoms,
     urgency_level |-> vals.urgency_level,
     explanation |-> vals.explanation,
     confidence |-> vals.confidence,
     resolution_status |->
        IF vals.resolution_status = DEFAULT THEN resolution_status_default
        ELSE vals.resolution_status,
     created_at |-> t,
     updated_at |-> t]

\* NOT NULL columns (a NULL is offered only for urgency_level and user_id
\* never is NULL in the inputs)
not_null(row) == row.urgency_level # NULL

\* confidence DECIMAL(3,2), in hundredths ({} is NULL): three digits, two of
\* them after the point, so that a value of 10 or more, or of -10 or less,
\* is a numeric field overflow; the column has no CHECK
decimal_3_2(row) == \A c \in row.confidence : -1000 < c /\ c < 1000

\* CHECK (urgency_level IN (...)): a CHECK passes when its expression is NULL
chk_urgency_level(row) ==
    row.urgency_level = NULL \/ row.urgency_level \in UrgencyLevels

\* CHECK (resolution_status IN (...)); the column is nullable.  PostgreSQL
\* has no ADD CONSTRAINT IF NOT EXISTS; the constraint is taken as in force,
\* which is the stricter table.
chk_resolution_status(row) ==
    row.resolution_status = NULL \/ row.resolution_status \in ResolutionStatuses

(***************************************************************************)
(* Row level security: auth.uid() is the caller, uid.                      *)
(***************************************************************************)
\* mutant of the SELECT policy: USING (true)
policy_select_all(uid, row) == TRUE

policy_select(uid, row) == uid = row.user_id

policy_insert_check(uid, row) == uid = row.user_id

policy_update_using(uid, row) == uid = row.user_id

\* mutant of the UPDATE policy: WITH CHECK (true)
policy_update_check_all(uid, row) == TRUE

policy_update_check(uid, row) == uid = row.user_id

policy_delete_using(uid, row) == uid = row.user_id

\* mutants of the trigger: one that does not stamp the row, one that stamps
\* created_at as well
handle_updated_at_off(new_row, t) == new_row

handle_updated_at_both(new_row, t) ==
    [new_row EXCEPT !.updated_at = t, !.created_at = t]

\* BEFORE UPDATE ... FOR EACH ROW: NEW.updated_at = NOW()
handle_updated_at(new_row, t) == [new_row EXCEPT !.updated_at = t]

(***************************************************************************)
(* SQL statements of an authenticated caller uid, under the row policies.  *)
(* Each statement that writes runs at its own, later NOW().                *)
(***************************************************************************)
\* what an operation op, called by uid with arguments req, returned: its
\* error (if any), its data, and the ids of the rows the data was taken from
\* or written to
Reply(op, uid, req, error, from, data) ==
    [op |-> op, caller |-> uid, request |-> req, error |-> error,
     from |-> from, data |-> data]

NoTrigger == {}

\* what INSERT INTO symptom_logs (...) VALUES vals does for caller uid
InsertError(uid, row) ==
    IF ~policy_insert_check(uid, row) THEN "row-level security"
    ELSE IF ~decimal_3_2(row) THEN "numeric field overflow"
    ELSE IF ~not_null(row) THEN "not-null violation"
    ELSE IF ~(chk_urgency_level(row) /\ chk_resolution_status(row))
         THEN "check violation"
    ELSE ""

\* the outcome of the INSERT: its error (if any), the table after it and
\* the ids it wrote
InsertResult(uid, vals) ==
    LET row == NewRow(vals, next_id, now + 1)
        err == InsertError(uid, row)
    IN  [error |-> err,
         table |-> IF err = "" THEN symptom_logs @@ (next_id :> row)
                   ELSE symptom_logs,
         ids |-> IF err = "" THEN {next_id} ELSE {}]

\* the state after an INSERT with outcome res, reported to the caller as rep
InsertEffect(res, rep) ==
    /\ next_id <= MaxRows
    /\ now' = IF res.ids = {} THEN now ELSE now + 1
    /\ symptom_logs' = res.table
    /\ next_id' = IF res.error = "" THEN next_id + 1 ELSE next_id
    /\ response' = rep
    /\ UNCHANGED last_trigger

sql_insert(uid, vals) ==
    LET res == InsertResult(uid, vals)
    IN  InsertEffect(res, Reply("insert", uid, << >>, res.error, res.ids, {}))

\* the rows an UPDATE ... WHERE id = id of caller uid works on
UpdateTargets(uid, id) ==
    {i \in DOMAIN symptom_logs :
        i = id /\ policy_select(uid, symptom_logs[i])
               /\ policy_update_using(uid, symptom_logs[i])}

UpdateError(uid, row) ==
    IF ~policy_update_check(uid, row) THEN "row-level security"
    ELSE IF ~decimal_3_2(row) THEN "numeric field overflow"
    ELSE IF ~not_null(row) THEN "not-null violation"
    ELSE IF ~(chk_urgency_level(row) /\ chk_resolution_status(row))
         THEN "check violation"
    ELSE ""

\* the row UPDATE ... SET col = val stores for old, after the trigger
UpdatedRow(old, col, val, t) == handle_updated_at([old EXCEPT ![col] = val], t)

\* the outcome of UPDATE symptom_logs SET col = val WHERE id = id by caller
\* uid: its error, the table after it, the rows it wrote and the trigger's
\* OLD and NEW
UpdateResult(uid, id, col, val) ==
    IF UpdateTargets(uid, id) = {}
    THEN [error |-> "", table |-> symptom_logs, ids |-> {}, rows |-> {},
          trigger |-> last_trigger]
    ELSE LET old == symptom_logs[id]
             row == UpdatedRow(old, col, val, now + 1)
             err == UpdateError(uid, row)
         IN  [error |-> err,
              table |-> IF err = "" THEN [symptom_logs EXCEPT ![id] = row]
                        ELSE symptom_logs,
              ids |-> IF err = "" THEN {id} ELSE {},
              rows |-> IF err = "" THEN {row} ELSE {},
              trigger |-> {[old |-> old, new |-> row]}]

\* the state after an UPDATE with outcome res, reported to the caller as rep
UpdateEffect(res, rep) ==
    /\ now' = IF res.ids = {} THEN now ELSE now + 1
    /\ symptom_logs' = res.table
    /\ last_trigger' = res.trigger
    /\ response' = rep
    /\ UNCHANGED next_id

sql_update(uid, id, col, val) ==
    LET res == UpdateResult(uid, id, col, val)
    IN  UpdateEffect(res, Reply("update", uid, << >>, res.error, res.ids, res.rows))

\* DELETE FROM symptom_logs WHERE id = id, by caller uid
sql_delete(uid, id) ==
    /\ LET gone == {i \in DOMAIN symptom_logs :
                      i = id /\ policy_select(uid, symptom_logs[i])
                             /\ policy_delete_using(uid, symptom_logs[i])}
       IN  /\ symptom_logs' =
                [i \in DOMAIN symptom_logs \ gone |-> symptom_logs[i]]
           /\ response' = Reply("delete", uid, << >>, "", gone, {})
    /\ UNCHANGED << next_id, now, last_trigger >>

\* SELECT * FROM symptom_logs, by caller uid
VisibleIds(uid) == {i \in DOMAIN symptom_logs : policy_select(uid, symptom_logs[i])}

sql_select(uid) ==
    /\ response' = Reply("select", uid, << >>, "", VisibleIds(uid),
                         {symptom_logs[i] : i \in VisibleIds(uid)})
    /\ UNCHANGED << symptom_logs, next_id, now, last_trigger >>

(***************************************************************************)
(* The view user_symptom_stats and the function get_user_recent_symptoms.  *)
(***************************************************************************)
Max(S) == CHOOSE x \in S : \A y \in S : y <= x

Min(S) == CHOOSE x \in S : \A y \in S : x <= y

\* mutant of the view: no GROUP BY user_id, every row counts for each user
IdsOf_all(user) == DOMAIN symptom_logs

\* the rows of user
IdsOf(user) == {i \in DOMAIN symptom_logs : symptom_logs[i].user_id = user}

CountLevel(user, level) ==
    Cardinality({i \in IdsOf(user) : symptom_logs[i].urgency_level = level})

\* SELECT ... FROM symptom_logs GROUP BY user_id: one row for each user_id
\* that has rows
user_symptom_stats ==
    {[user_id |-> u,
      total_assessments |-> Cardinality(IdsOf(u)),
      emergency_count |-> CountLevel(u, "Emergency"),
      urgent_count |-> CountLevel(u, "Urgent"),
      primary_care_count |-> CountLevel(u, "Primary Care"),
      telehealth_count |-> CountLevel(u, "Telehealth"),
      self_care_count |-> CountLevel(u, "Self-Care"),
      first_assessment |-> Min({symptom_logs[i].created_at : i \in IdsOf(u)}),
      last_assessment |-> Max({symptom_logs[i].created_at : i \in IdsOf(u)})]
     : u \in {v \in Users : IdsOf(v) # {}}}

\* "Users can view their own stats" ON user_symptom_stats
policy_stats_select(uid, row) == uid = row.user_id

\* SELECT * FROM user_symptom_stats, by caller uid.  PostgreSQL takes row
\* policies on tables only and runs a view as its owner; the policy is
\* taken as in force all the same, which is the stricter storage layer.
select_user_symptom_stats(uid) ==
    /\ response' = Reply("user_symptom_stats", uid, << >>, "",
                         {i \in DOMAIN symptom_logs :
                            policy_stats_select(uid, symptom_logs[i])},
                         {g \in user_symptom_stats : policy_stats_select(uid, g)})
    /\ UNCHANGED << symptom_logs, next_id, now, last_trigger >>

\* the ways to put the rows ids of table newest first (rows of equal
\* created_at come in either order)
NewestFirstIn(table, ids) ==
    {f \in [1..Cardinality(ids) -> ids] :
        /\ \A i, j \in 1..Cardinality(ids) : i # j => f[i] # f[j]
        /\ \A i, j \in 1..Cardinality(ids) :
              i < j => table[f[i]].created_at >= table[f[j]].created_at}

NewestFirst(ids) == NewestFirstIn(symptom_logs, ids)

\* mutant of LIMIT: every row is returned
Take_all(seq, n) == seq

\* LIMIT n of the rows in the order seq
Take(seq, n) == SubSeq(seq, 1, IF n < Len(seq) THEN n ELSE Len(seq))

\* get_user_recent_symptoms(p_user_id, p_limit), SECURITY DEFINER, called by
\* uid: EXECUTE is granted to every authenticated caller
get_user_recent_symptoms(uid, p_user_id, p_limit) ==
    /\ \E order \in NewestFirst(IdsOf(p_user_id)) :
          LET got == Take(order, p_limit)
          IN  response' =
                Reply("get_user_recent_symptoms", uid, << >>, "",
                      {got[k] : k \in 1..Len(got)},
                      [k \in 1..Len(got) |->
                          [symptoms |-> symptom_logs[got[k]].symptoms,
                           created_at |-> symptom_logs[got[k]].created_at]])
    /\ UNCHANGED << symptom_logs, next_id, now, last_trigger >>

(***************************************************************************)
(* Text.                                                                   *)
(***************************************************************************)
IsSpace(c) == c = " "

RECURSIVE TrimStart(_)
TrimStart(text) ==
    IF text = << >> THEN text
    ELSE IF IsSpace(Head(text)) THEN TrimStart(Tail(text))
    ELSE text

RECURSIVE TrimEnd(_)
TrimEnd(text) ==
    IF text = << >> THEN text
    ELSE IF IsSpace(text[Len(text)]) THEN TrimEnd(SubSeq(text, 1, Len(text) - 1))
    ELSE text

\* mutant of trim: the text as it is
trim_none(text) == text

\* String.prototype.trim
trim(text) == TrimEnd(TrimStart(text))

(***************************************************************************)
(* The backend's handlers, from the written contract.  An HTTP reply is    *)
(* [status, detail, data]; the handler's effect on the table comes with it.*)
(***************************************************************************)
Http(status, detail, data) == [status |-> status, detail |-> detail, data |-> data]

\* PUT /api/history/resolution {symptom_log_id, resolution_status} for the
\* caller uid: validation, then ownership, then the write
backend_update_resolution(uid, id, status) ==
    IF status \notin ResolutionStatuses
    THEN [http |-> Http(422, "ValidationError", {}), written |-> FALSE]
    ELSE IF id \notin VisibleIds(uid)
    THEN [http |-> Http(404, "NotFoundError", {}), written |-> FALSE]
    ELSE LET res == UpdateResult(uid, id, "resolution_status", status)
         IN  IF res.error # "" \/ res.ids = {}
             THEN [http |-> Http(500, "PersistenceError", {}), written |-> TRUE,
                   res |-> res]
             ELSE [http |-> Http(200, "", res.rows), written |-> TRUE,
                   res |-> res]

\* the fixed lookup from urgency level to the recommended next step
next_steps(level) ==
    [action |-> IF level = "Emergency" THEN "call emergency services now"
                ELSE IF level = "Self-Care" THEN "care for yourself at home"
                ELSE "book care"]

\* what the classification collaborator may answer: a classification, a
\* malformed one, or nothing (unreachable, timed out)
Classifications ==
    [ok : {TRUE}, urgency_level : {"Emergency", "Self-Care", "Bogus"},
     explanation : {"rest"}, confidence : {{85}}]
        \cup {[ok |-> FALSE, urgency_level |-> NULL, explanation |-> "",
               confidence |-> {}]}

\* POST /api/triage/assess {symptoms} for the caller uid, the collaborator
\* answering cls: validation, classification, then one new record
backend_assess(uid, symptoms, cls) ==
    IF trim(symptoms) = Blank
    THEN [http |-> Http(422, "ValidationError", {}), written |-> FALSE]
    ELSE IF ~cls.ok \/ cls.urgency_level \notin UrgencyLevels
    THEN [http |-> Http(502, "UpstreamError", {}), written |-> FALSE]
    ELSE LET res == InsertResult(uid,
                        [user_id |-> uid, symptoms |-> symptoms,
                         urgency_level |-> cls.urgency_level,
                         explanation |-> cls.explanation,
                         confidence |-> cls.confidence,
                         resolution_status |-> DEFAULT])
         IN  IF res.error # ""
             THEN [http |-> Http(500, "PersistenceError", {}), written |-> TRUE,
                   res |-> res]
             ELSE [http |-> Http(200, "",
                                 [urgency_level |-> cls.urgency_level,
                                  explanation |-> cls.explanation,
                                  confidence |-> cls.confidence,
                                  next_steps |-> next_steps(cls.urgency_level),
                                  timestamp |-> now + 1]),
                   written |-> TRUE, res |-> res]

\* an assessment as the history endpoint returns it
Assessment(row) ==
    [id |-> row.id, symptoms |-> row.symptoms,
     urgency_level |-> row.urgency_level, explanation |-> row.explanation,
     confidence |-> row.confidence,
     resolution_status |-> row.resolution_status,
     timestamp |-> row.created_at]

\* GET /api/history/?limit=N for the caller uid, the table being table: the
\* caller's assessments, newest first (one reply for each such order)
backend_history(table, uid, limit) ==
    LET ids == {i \in DOMAIN table : policy_select(uid, table[i])}
    IN  {Http(200, "",
              [k \in 1..Len(Take(order, limit)) |-> Assessment(table[order[k]])])
         : order \in NewestFirstIn(table, ids)}

\* the most frequent level of counts, one of them when several are; none
\* when every count is 0
MostCommon(counts) ==
    LET top == {l \in DOMAIN counts :
                   /\ counts[l] > 0
                   /\ \A m \in DOMAIN counts : counts[m] <= counts[l]}
    IN  IF top = {} THEN {} ELSE {CHOOSE l \in top : TRUE}

\* GET /api/history/stats for the caller uid: the caller's totals
backend_stats(table, uid) ==
    LET ids == {i \in DOMAIN table : policy_select(uid, table[i])}
        urgency_distribution ==
            [l \in UrgencyLevels |->
                Cardinality({i \in ids : table[i].urgency_level = l})]
    IN  Http(200, "",
             [total_assessments |-> Cardinality(ids),
              urgency_distribution |-> urgency_distribution,
              resolution_distribution |->
                 [r \in ResolutionStatuses |->
                     Cardinality({i \in ids : table[i].resolution_status = r})],
              most_common_urgency |-> MostCommon(urgency_distribution)])

(***************************************************************************)
(* services/api.js: what an API function hands to its caller for an HTTP   *)
(* reply: response.data, or a thrown Error with the reply's detail, or     *)
(* with the function's own message when there is none.                     *)
(***************************************************************************)
ApiOutcome(http, fallback) ==
    IF http.status = 200
    THEN [threw |-> FALSE, message |-> "", value |-> http.data]
    ELSE [threw |-> TRUE,
          message |-> IF http.detail # "" THEN http.detail ELSE fallback,
          value |-> {}]

triageAPI_assessSymptoms(http) == ApiOutcome(http, "Assessment failed")

\* mutant of updateResolutionStatus: the catch block does not throw
historyAPI_updateResolutionStatus_quiet(http) ==
    [threw |-> FALSE, message |-> "", value |-> http.data]

historyAPI_updateResolutionStatus(http) ==
    ApiOutcome(http, "Failed to update resolution status")

historyAPI_getUserHistory(http) == ApiOutcome(http, "Failed to get history")

\* the catch block of getUserStats does not look at the reply
historyAPI_getUserStats(http) ==
    ApiOutcome([http EXCEPT !.detail = ""], "Failed to get user stats")

\* what the caller of an API function sees, as the latest response
ApiReply(op, uid, req, out, ids) ==
    Reply(op, uid, req, out.message, ids, IF out.threw THEN {} ELSE {out.value})

(***************************************************************************)
(* The API functions called by a signed-in user uid (the request carries   *)
(* uid's bearer token), the backend answering at once.                     *)
(***************************************************************************)
updateResolutionStatus(uid, id, status) ==
    LET b == backend_update_resolution(uid, id, status)
        out == historyAPI_updateResolutionStatus(b.http)
        req == [symptom_log_id |-> id, resolution_status |-> status]
    IN  IF b.written
        THEN UpdateEffect(b.res,
                ApiReply("updateResolutionStatus", uid, req, out, b.res.ids))
        ELSE /\ response' = ApiReply("updateResolutionStatus", uid, req, out, {})
             /\ UNCHANGED << symptom_logs, next_id, now, last_trigger >>

assessSymptoms(uid, symptoms, cls) ==
    LET b == backend_assess(uid, symptoms, cls)
        out == triageAPI_assessSymptoms(b.http)
        req == [symptoms |-> symptoms]
    IN  IF b.written
        THEN InsertEffect(b.res,
                ApiReply("assessSymptoms", uid, req, out, b.res.ids))
        ELSE /\ response' = ApiReply("assessSymptoms", uid, req, out, {})
             /\ UNCHANGED << symptom_logs, next_id, now, last_trigger >>

(***************************************************************************)
(* The storage layer, used by the users in any order with their own        *)
(* statements and through the application's resolution update.             *)
(***************************************************************************)
NoReply == Reply("", "", << >>, "", {}, {})

InitDb ==
    /\ symptom_logs = << >>
    /\ next_id = 1
    /\ now = 0
    /\ response = NoReply
    /\ last_trigger = NoTrigger

\* the pages as they are mounted
InitPages ==
    /\ tp_symptoms = << >>
    /\ tp_loading = FALSE
    /\ tp_result = {}
    /\ tp_toast = ""
    /\ tp_request = {}
    /\ tp_submitted = {}
    /\ hp_history = << >>
    /\ hp_stats = {}
    /\ hp_loading = TRUE
    /\ hp_calls = {}
    /\ hp_clicks = 0
    /\ hp_searchTerm = << >>
    /\ hp_filterLevel = "all"
    /\ dash_stats = {}
    /\ dash_recentHistory = {<< >>}
    /\ dash_loading = TRUE

\* nobody is signed in, and the document is about to load
InitSession ==
    /\ ls_token = {}
    /\ ls_user = {}
    /\ auth_user = {}
    /\ auth_isAuthenticated = FALSE
    /\ auth_loading = TRUE
    /\ auth_toast = ""
    /\ location = "/login"
    /\ unloading = FALSE
    /\ wire = {}
    /\ n_sent = 0
    /\ last_reply = {}
    /\ valid_tokens = {}

Init == InitDb /\ InitPages /\ InitSession

\* the session is as it was
SessionIdle == UNCHANGED sessionvars

\* no page takes a step
PagesIdle == UNCHANGED << triagevars, historyvars, dashvars >> /\ SessionIdle

Next ==
    \E uid \in Users :
        \/ sql_select(uid) /\ PagesIdle
        \/ select_user_symptom_stats(uid) /\ PagesIdle
        \/ \E p \in Users, n \in Limits :
              get_user_recent_symptoms(uid, p, n) /\ PagesIdle
        \/ \E vals \in InsertValues :
              now < MaxTime /\ sql_insert(uid, vals) /\ PagesIdle
        \/ \E id \in Ids, a \in UpdateAssignments :
              now < MaxTime /\ sql_update(uid, id, a[1], a[2]) /\ PagesIdle
        \/ \E id \in Ids : sql_delete(uid, id) /\ PagesIdle
        \/ \E id \in Ids, st \in {"Improved", "Bogus"} :
              now < MaxTime /\ updateResolutionStatus(uid, id, st) /\ PagesIdle

vars == << dbvars, triagevars, historyvars, dashvars, sessionvars >>

Spec == Init /\ [][Next]_vars

(***************************************************************************)
(* The application: the API functions, used by the users in any order.     *)
(***************************************************************************)
\* the texts a request may carry
RequestTexts == {<< >>, <<" ">>, <<"x">>}

NextApi ==
    \E uid \in Users :
        \/ \E id \in Ids, st \in ResolutionStatuses \cup {"Bogus"} :
              now < MaxApiTime /\ updateResolutionStatus(uid, id, st) /\ PagesIdle
        \/ \E text \in RequestTexts, cls \in Classifications :
              now < MaxApiTime /\ assessSymptoms(uid, text, cls) /\ PagesIdle

SpecApi == Init /\ [][NextApi]_vars

(***************************************************************************)
(* The confidence column, written by the users with their own statements.  *)
(***************************************************************************)
\* confidences a statement may offer, in hundredths: NULL, 0, 0.85, 1,
\* 1.50, -0.50 and 10.00
ConfidenceInputs == {{}, {0}, {85}, {100}, {150}, {-50}, {1000}}

ConfidenceInsertValues ==
    [user_id : Users, symptoms : {<<"x">>}, urgency_level : {"Emergency"},
     explanation : {"rest"}, confidence : ConfidenceInputs,
     resolution_status : {DEFAULT}]

NextConfidence ==
    \E uid \in Users :
        \/ \E vals \in ConfidenceInsertValues :
              now < MaxTime /\ sql_insert(uid, vals) /\ PagesIdle
        \/ \E id \in Ids, c \in ConfidenceInputs :
              now < MaxTime /\ sql_update(uid, id, "confidence", c) /\ PagesIdle
        \/ sql_select(uid) /\ PagesIdle

SpecConfidence == Init /\ [][NextConfidence]_vars

(***************************************************************************)
(* TriagePage, used by the signed-in user PageUser.                        *)
(***************************************************************************)
PageUser == "A"

PageTexts == UNION {[1..n -> Chars] : n \in 0..MaxText}

\* obj[key] of a JavaScript object; {} is undefined
Property(obj, key) == IF key \in DOMAIN obj THEN {obj[key]} ELSE {}

\* no reply reached the client (error.response is undefined)
NoHttp == Http(0, "", {})

\* variant of the form: the textarea and the sample buttons are not
\* disabled while loading
setSymptoms_while_loading(text) ==
    /\ tp_result = {}
    /\ tp_symptoms' = text
    /\ UNCHANGED << tp_loading, tp_result, tp_toast, tp_request, tp_submitted >>
    /\ UNCHANGED << dbvars, historyvars, dashvars >>

\* the form is rendered when result is not set; the textarea and the sample
\* buttons are disabled while loading
setSymptoms(text) ==
    /\ tp_result = {} /\ ~tp_loading
    /\ tp_symptoms' = text
    /\ UNCHANGED << tp_loading, tp_result, tp_toast, tp_request, tp_submitted >>
    /\ UNCHANGED << dbvars, historyvars, dashvars >>

\* handleSubmit up to its await, for a submit event of the form while no
\* request is in flight.  The event reaches the handler whatever the text
\* is: the submit button's disabled attribute is the browser's matter, and
\* the handler makes its own check.
handleSubmit ==
    /\ tp_result = {} /\ ~tp_loading
    /\ tp_submitted' = {tp_symptoms}
    /\ IF trim(tp_symptoms) = Blank
       THEN /\ tp_toast' = "Please describe your symptoms"
            /\ UNCHANGED << tp_loading, tp_request >>
       ELSE /\ tp_loading' = TRUE
            /\ tp_request' = {[symptoms |-> trim(tp_symptoms)]}
            /\ UNCHANGED tp_toast
    /\ UNCHANGED << tp_symptoms, tp_result >>
    /\ UNCHANGED << dbvars, historyvars, dashvars >>

\* the backend handles the POST in flight, the collaborator answering cls,
\* and handleSubmit goes on after its await: setResult(response.data) of the
\* body assessSymptoms returned, or the toast of the error it threw, and
\* setLoading(false) at last
handleSubmit_settled(cls) ==
    /\ \E req \in tp_request :
          LET b == backend_assess(PageUser, req.symptoms, cls)
              out == triageAPI_assessSymptoms(b.http)
          IN  /\ assessSymptoms(PageUser, req.symptoms, cls)
              /\ IF out.threw
                 THEN tp_toast' = out.message /\ UNCHANGED tp_result
                 ELSE /\ tp_result' = Property(out.value, "data")
                      /\ tp_toast' = "Assessment completed!"
    /\ tp_loading' = FALSE
    /\ tp_request' = {}
    /\ UNCHANGED << tp_symptoms, tp_submitted, historyvars, dashvars >>

\* mutant of handleSubmit_failed: the catch block sends the POST again
handleSubmit_failed_resend ==
    /\ tp_request # {}
    /\ tp_toast' = triageAPI_assessSymptoms(NoHttp).message
    /\ tp_loading' = FALSE
    /\ UNCHANGED << tp_symptoms, tp_result, tp_request, tp_submitted >>
    /\ UNCHANGED << dbvars, historyvars, dashvars >>

\* the POST in flight is lost and handleSubmit goes on in its catch block
handleSubmit_failed ==
    /\ tp_request # {}
    /\ tp_toast' = triageAPI_assessSymptoms(NoHttp).message
    /\ tp_loading' = FALSE
    /\ tp_request' = {}
    /\ UNCHANGED << tp_symptoms, tp_result, tp_submitted >>
    /\ UNCHANGED << dbvars, historyvars, dashvars >>

\* "New Assessment" of the result view, which is rendered when result is
\* set.  No step sets result (the body of a reply has no data property), so
\* that NextTriage has no step of handleReset.
handleReset ==
    /\ tp_result # {}
    /\ tp_symptoms' = << >>
    /\ tp_result' = {}
    /\ UNCHANGED << tp_loading, tp_toast, tp_request, tp_submitted >>
    /\ UNCHANGED << dbvars, historyvars, dashvars >>

NextTriage ==
    \/ \E text \in PageTexts : setSymptoms(text) /\ SessionIdle
    \/ handleSubmit /\ SessionIdle
    \/ \E cls \in Classifications :
          now < MaxTime /\ handleSubmit_settled(cls) /\ SessionIdle
    \/ handleSubmit_failed /\ SessionIdle

SpecTriage == Init /\ [][NextTriage]_vars

\* the results the page is rendered with: next_steps absent, or with a
\* booking_url that is a marker or a link
ResultInputs ==
    [urgency_level : {"Emergency", "Urgent", "Self-Care"},
     explanation : {"rest"},
     next_steps : {{},
                   {[action |-> "act", booking_url |-> "#emergency"]},
                   {[action |-> "act", booking_url |-> "https://book"]}}]

\* the blocks the page renders for result: the input form while result is
\* not set, else the result card, whose "Recommended Next Steps" block,
\* rendered when result.next_steps is set, holds the booking link and the
\* emergency notice
TriageView(result) ==
    IF result = {} THEN {"Input form"}
    ELSE LET r == CHOOSE x \in result : TRUE
         IN  {"Assessment Complete", "Recommended Urgency Level",
              "Symptoms Reviewed", "AI Assessment & Explanation",
              "New Assessment"}
             \cup (IF r.next_steps = {} THEN {}
                   ELSE {"Recommended Next Steps"}
                        \cup (IF \E n \in r.next_steps :
                                    n.booking_url \notin
                                       {"", "#emergency", "#self-care"}
                              THEN {"Book Care Appointment"} ELSE {})
                        \cup (IF r.urgency_level = "Emergency"
                              THEN {"Emergency Situation Detected"} ELSE {}))

\* the page with a result set, or with none
InitResult ==
    /\ InitDb /\ InitSession
    /\ tp_symptoms = <<"x">>
    /\ tp_loading = FALSE
    /\ tp_result \in {{}} \cup {{r} : r \in ResultInputs}
    /\ tp_toast = ""
    /\ tp_request = {}
    /\ tp_submitted = {}
    /\ hp_history = << >>
    /\ hp_stats = {}
    /\ hp_loading = TRUE
    /\ hp_calls = {}
    /\ hp_clicks = 0
    /\ hp_searchTerm = << >>
    /\ hp_filterLevel = "all"
    /\ dash_stats = {}
    /\ dash_recentHistory = {<< >>}
    /\ dash_loading = TRUE

NextResult ==
    \/ handleReset /\ SessionIdle
    \/ \E text \in PageTexts : setSymptoms(text) /\ SessionIdle
    \/ handleSubmit /\ SessionIdle
    \/ \E cls \in Classifications :
          now < MaxTime /\ handleSubmit_settled(cls) /\ SessionIdle
    \/ handleSubmit_failed /\ SessionIdle

SpecResult == InitResult /\ [][NextResult]_vars

\* the response to the POST in flight never arrives: the connection stays
\* open and silent.  The axios instance is created without a timeout, and
\* handleSubmit sets none, so that no step of the page follows: the promise
\* handleSubmit awaits is never settled.
response_never_arrives ==
    /\ tp_request # {}
    /\ tp_request' = {}
    /\ UNCHANGED << tp_symptoms, tp_loading, tp_result, tp_toast,
                    tp_submitted >>
    /\ UNCHANGED << dbvars, historyvars, dashvars >>

NextHang ==
    \/ \E text \in PageTexts : setSymptoms(text) /\ SessionIdle
    \/ handleSubmit /\ SessionIdle
    \/ \E cls \in Classifications :
          now < MaxTime /\ handleSubmit_settled(cls) /\ SessionIdle
    \/ handleSubmit_failed /\ SessionIdle
    \/ response_never_arrives /\ SessionIdle

\* the event loop runs the continuation of handleSubmit once the promise it
\* awaits is settled, by a response or by a network error
SpecHang ==
    /\ Init /\ [][NextHang]_vars
    /\ WF_vars(/\ \/ \E cls \in Classifications :
                         now < MaxTime /\ handleSubmit_settled(cls)
                  \/ handleSubmit_failed
               /\ SessionIdle)

(***************************************************************************)
(* HistoryPage, used by the signed-in user PageUser while the users make   *)
(* assessments.  The filter and the search term stay as they are mounted   *)
(* ('all' and ''), so that every item of history is listed.                *)
(***************************************************************************)
\* getUserHistory(50)
HistoryLimit == 50

\* mutant of the buttons: one for each status
StatusButtons_all == ResolutionStatuses

\* the statuses the page has a button for, on each item listed
StatusButtons == {"Resolved", "Improved", "Ongoing", "Worsened"}

\* historyData.logs || historyData || []: the reply is an array, which has
\* no logs property and is truthy
Logs(historyData) == historyData

\* Promise.all([getUserHistory(50), getUserStats()]) and the two setters,
\* the table being table
Refresh(table) ==
    \E h \in backend_history(table, PageUser, HistoryLimit) :
        LET historyData == historyAPI_getUserHistory(h)
            statsData == historyAPI_getUserStats(backend_stats(table, PageUser))
        IN  /\ hp_history' = Logs(historyData.value)
            /\ hp_stats' = {statsData.value}

\* the page is mounted and fetchData runs
fetchData ==
    /\ Refresh(symptom_logs)
    /\ hp_loading' = FALSE
    /\ UNCHANGED << hp_calls, hp_clicks, filtervars, dbvars, triagevars, dashvars >>

\* the page is mounted and fetchData fails to reach the backend
fetchData_failed ==
    /\ hp_history' = << >>
    /\ hp_stats' = {}
    /\ hp_loading' = FALSE
    /\ UNCHANGED << hp_calls, hp_clicks, filtervars, dbvars, triagevars, dashvars >>

\* the items the page lists, each with its status buttons
Listed == IF hp_loading THEN {} ELSE {hp_history[k].id : k \in DOMAIN hp_history}

\* what the page renders: the spinner while loading; then the stats
\* overview when stats is set, and the list, or its empty state when
\* history is empty.  The page renders nothing else: it has no error state
\* and shows no toast.
HistoryView ==
    IF hp_loading
    THEN [heading |-> "Loading history...", stats |-> {}, items |-> << >>]
    ELSE [heading |-> IF Len(hp_history) = 0 THEN "No assessments yet"
                      ELSE "Assessments",
          stats |-> hp_stats,
          items |-> hp_history]

\* the handler of a status button: the PUT, then the refresh when the PUT
\* did not throw
HistoryPage_updateResolutionStatus(symptomLogId, newStatus) ==
    /\ updateResolutionStatus(PageUser, symptomLogId, newStatus)
    /\ IF response'.error = ""
       THEN Refresh(symptom_logs')
       ELSE UNCHANGED << hp_history, hp_stats >>
    /\ UNCHANGED << hp_loading, hp_calls, hp_clicks, filtervars,
                    triagevars, dashvars >>

\* a click on the button status of the listed item id
ClickStatus(id, status) ==
    /\ id \in Listed
    /\ status \in StatusButtons
    /\ HistoryPage_updateResolutionStatus(id, status)

\* the classifications the assessments of SpecHistory get
HistoryClassifications == {cls \in Classifications : cls.urgency_level = "Emergency"}

NextHistory ==
    \/ fetchData /\ SessionIdle
    \/ fetchData_failed /\ SessionIdle
    \/ \E id \in Ids, status \in ResolutionStatuses :
          now < MaxHistoryTime /\ ClickStatus(id, status) /\ SessionIdle
    \/ \E uid \in Users, cls \in HistoryClassifications :
          /\ now < MaxHistoryTime
          /\ assessSymptoms(uid, <<"x">>, cls)
          /\ PagesIdle

SpecHistory == Init /\ [][NextHistory]_vars

(***************************************************************************)
(* HistoryPage: the search box and the level filter.  The pages above keep *)
(* the two at their initial values, with which the list shown is the       *)
(* loaded history.  Texts are sequences of characters, with letters in     *)
(* both cases.                                                             *)
(***************************************************************************)
FilterChars == {"x", "X", "y"}

\* String.prototype.toLowerCase, character by character
toLowerCase_none(text) == text

toLowerCase(text) ==
    [k \in 1..Len(text) |-> IF text[k] = "X" THEN "x"
                            ELSE IF text[k] = "Y" THEN "y" ELSE text[k]]

\* String.prototype.includes
includes(text, term) ==
    \E o \in 0..(Len(text) - Len(term)) : SubSeq(text, o + 1, o + Len(term)) = term

\* history.filter(item => matchesSearch && matchesFilter)
filteredHistory(history, searchTerm, filterLevel) ==
    LET Test(item) ==
            LET matchesSearch ==
                    \/ includes(toLowerCase(item.symptoms),
                                toLowerCase(searchTerm))
                    \/ includes(toLowerCase(item.explanation),
                                toLowerCase(searchTerm))
                matchesFilter ==
                    filterLevel = "all" \/ item.urgency_level = filterLevel
            IN  matchesSearch /\ matchesFilter
    IN  SelectSeq(history, Test)

\* the list the page shows
Visible == filteredHistory(hp_history, hp_searchTerm, hp_filterLevel)

\* the items of the histories the filter is tried on
FilterItems ==
    [symptoms : {<<"x">>, <<"y", "y">>}, explanation : {<<"y">>, <<"X", "y">>},
     urgency_level : {"Emergency", "Urgent"}]

\* the search terms typed
SearchTerms == UNION {[1..n -> FilterChars] : n \in 0..MaxText}

\* the options of the select
FilterLevels == {"all"} \cup UrgencyLevels

\* the page with a history loaded
InitFilter ==
    /\ InitDb /\ InitSession
    /\ tp_symptoms = << >>
    /\ tp_loading = FALSE
    /\ tp_result = {}
    /\ tp_toast = ""
    /\ tp_request = {}
    /\ tp_submitted = {}
    /\ hp_history \in UNION {[1..n -> FilterItems] : n \in 0..MaxRows}
    /\ hp_stats = {}
    /\ hp_loading = FALSE
    /\ hp_calls = {}
    /\ hp_clicks = 0
    /\ hp_searchTerm = << >>
    /\ hp_filterLevel = "all"
    /\ dash_stats = {}
    /\ dash_recentHistory = {<< >>}
    /\ dash_loading = TRUE

\* onChange of the search input
setSearchTerm(term) ==
    /\ ~hp_loading
    /\ hp_searchTerm' = term
    /\ UNCHANGED << hp_history, hp_stats, hp_loading, hp_calls, hp_clicks,
                    hp_filterLevel >>
    /\ UNCHANGED << dbvars, triagevars, dashvars >>

\* onChange of the select
setFilterLevel(level) ==
    /\ ~hp_loading
    /\ hp_filterLevel' = level
    /\ UNCHANGED << hp_history, hp_stats, hp_loading, hp_calls, hp_clicks,
                    hp_searchTerm >>
    /\ UNCHANGED << dbvars, triagevars, dashvars >>

NextFilter ==
    \/ \E term \in SearchTerms : setSearchTerm(term) /\ SessionIdle
    \/ \E level \in FilterLevels : setFilterLevel(level) /\ SessionIdle

SpecFilter == InitFilter /\ [][NextFilter]_vars

(***************************************************************************)
(* pages/Dashboard.jsx: the stats and the five latest assessments, loaded  *)
(* once the page is mounted.                                               *)
(***************************************************************************)
DashboardLimit == 5

\* historyData.logs: the reply is an array, which has no logs property, so
\* that the value is undefined
logs(historyData) == {}

\* Promise.all([getUserStats(), getUserHistory(5)]) and the two setters
fetchDashboardData ==
    /\ \E h \in backend_history(symptom_logs, PageUser, DashboardLimit) :
          LET statsData ==
                  historyAPI_getUserStats(backend_stats(symptom_logs, PageUser))
              historyData == historyAPI_getUserHistory(h)
          IN  /\ dash_stats' = {statsData.value}
              /\ dash_recentHistory' = logs(historyData.value)
    /\ dash_loading' = FALSE
    /\ UNCHANGED << dbvars, triagevars, historyvars >>

\* one of the two calls fails: the catch block logs to the console
fetchDashboardData_failed ==
    /\ dash_loading' = FALSE
    /\ UNCHANGED << dash_stats, dash_recentHistory >>
    /\ UNCHANGED << dbvars, triagevars, historyvars >>

\* what the page renders below "Recent Assessments": the spinner while
\* loading, then the list, or its empty state when recentHistory.length is
\* 0.  Reading the length of undefined throws a TypeError, and the page
\* renders nothing.
DashboardView ==
    IF dash_loading
    THEN [heading |-> "Loading dashboard...", items |-> << >>]
    ELSE IF dash_recentHistory = {}
    THEN [heading |-> "TypeError", items |-> << >>]
    ELSE LET recentHistory == CHOOSE l \in dash_recentHistory : TRUE
         IN  [heading |-> IF Len(recentHistory) = 0 THEN "No assessments yet"
                          ELSE "Recent Assessments",
              items |-> recentHistory]

NextDashboard ==
    \/ fetchDashboardData /\ SessionIdle
    \/ fetchDashboardData_failed /\ SessionIdle
    \/ fetchData /\ SessionIdle
    \/ \E id \in Ids, status \in ResolutionStatuses :
          now < MaxHistoryTime /\ ClickStatus(id, status) /\ SessionIdle
    \/ \E uid \in Users, cls \in HistoryClassifications :
          /\ now < MaxHistoryTime
          /\ assessSymptoms(uid, <<"x">>, cls)
          /\ PagesIdle

SpecDashboard == Init /\ [][NextDashboard]_vars

(***************************************************************************)
(* HistoryPage.updateResolutionStatus step by step: the PUT is sent, the   *)
(* backend serves it, the handler goes on after its first await and sends  *)
(* the two GETs of the refresh, the backend serves them, and the handler   *)
(* goes on after its second await and calls the two setters.  Nothing      *)
(* keeps a second click from starting a second call while a first one is   *)
(* at an await, and the replies reach the client in any order.             *)
(***************************************************************************)
\* the status buttons clicked while calls overlap
RaceStatuses == {"Resolved", "Improved"}

\* the user's assessments are stored before the page is mounted
stored_before(cls) ==
    /\ hp_loading
    /\ assessSymptoms(PageUser, <<"x">>, cls)

\* a click on the button status of the listed item id: the handler runs to
\* its first await, the PUT being sent
click(id, status) ==
    /\ id \in Listed
    /\ status \in StatusButtons
    /\ hp_clicks < MaxClicks
    /\ hp_clicks' = hp_clicks + 1
    /\ hp_calls' = hp_calls \cup
          {[n |-> hp_clicks + 1, id |-> id, status |-> status, phase |-> "put",
            history |-> << >>, stats |-> {}]}
    /\ UNCHANGED << hp_history, hp_stats, hp_loading, filtervars >>
    /\ UNCHANGED << dbvars, triagevars, dashvars >>

\* the backend serves the PUT of the call c
put_served(c) ==
    /\ c \in hp_calls /\ c.phase = "put"
    /\ updateResolutionStatus(PageUser, c.id, c.status)
    /\ hp_calls' = (hp_calls \ {c}) \cup
          {[c EXCEPT !.phase = IF response'.error = "" THEN "put_ok"
                               ELSE "put_error"]}
    /\ UNCHANGED << hp_history, hp_stats, hp_loading, hp_clicks, filtervars >>
    /\ UNCHANGED << triagevars, dashvars >>

\* the reply to the PUT reaches the handler: it sends the two GETs, or it
\* ends in its catch block
put_settled(c) ==
    /\ c \in hp_calls /\ c.phase \in {"put_ok", "put_error"}
    /\ hp_calls' = (hp_calls \ {c}) \cup
          (IF c.phase = "put_ok" THEN {[c EXCEPT !.phase = "get"]} ELSE {})
    /\ UNCHANGED << hp_history, hp_stats, hp_loading, hp_clicks, filtervars >>
    /\ UNCHANGED << dbvars, triagevars, dashvars >>

\* the backend serves the two GETs of the call c, from the table as it is
get_served(c) ==
    /\ c \in hp_calls /\ c.phase = "get"
    /\ \E h \in backend_history(symptom_logs, PageUser, HistoryLimit) :
          LET historyData == historyAPI_getUserHistory(h)
              statsData ==
                  historyAPI_getUserStats(backend_stats(symptom_logs, PageUser))
          IN  hp_calls' = (hp_calls \ {c}) \cup
                 {[c EXCEPT !.phase = "got",
                            !.history = Logs(historyData.value),
                            !.stats = {statsData.value}]}
    /\ UNCHANGED << hp_history, hp_stats, hp_loading, hp_clicks, filtervars >>
    /\ UNCHANGED << dbvars, triagevars, dashvars >>

\* the replies to the two GETs have reached the handler: setHistory(logs)
\* and setStats(statsData)
get_settled(c) ==
    /\ c \in hp_calls /\ c.phase = "got"
    /\ hp_history' = c.history
    /\ hp_stats' = c.stats
    /\ hp_calls' = hp_calls \ {c}
    /\ UNCHANGED << hp_loading, hp_clicks, filtervars >>
    /\ UNCHANGED << dbvars, triagevars, dashvars >>

\* variant of the catch block: history is emptied, as fetchData does
call_failed_empties(c) ==
    /\ c \in hp_calls
    /\ hp_calls' = hp_calls \ {c}
    /\ hp_history' = << >>
    /\ UNCHANGED << hp_stats, hp_loading, hp_clicks, filtervars >>
    /\ UNCHANGED << dbvars, triagevars, dashvars >>

\* the request the call c waits for fails (no response, or a reply with an
\* error status): the handler ends in its catch block, which logs to the
\* console
call_failed(c) ==
    /\ c \in hp_calls
    /\ hp_calls' = hp_calls \ {c}
    /\ UNCHANGED << hp_history, hp_stats, hp_loading, hp_clicks, filtervars >>
    /\ UNCHANGED << dbvars, triagevars, dashvars >>

\* the calls with every request answered
NextRace ==
    \/ \E cls \in HistoryClassifications :
          now < MaxTime /\ stored_before(cls) /\ PagesIdle
    \/ fetchData /\ SessionIdle
    \/ \E id \in Ids, status \in RaceStatuses : click(id, status) /\ SessionIdle
    \/ \E c \in hp_calls : put_served(c) /\ SessionIdle
    \/ \E c \in hp_calls : put_settled(c) /\ SessionIdle
    \/ \E c \in hp_calls : get_served(c) /\ SessionIdle
    \/ \E c \in hp_calls : get_settled(c) /\ SessionIdle

SpecRace == Init /\ [][NextRace]_vars

\* the calls with requests that fail
NextRefresh ==
    \/ \E cls \in HistoryClassifications :
          now < MaxTime /\ stored_before(cls) /\ PagesIdle
    \/ fetchData /\ SessionIdle
    \/ \E id \in Ids, status \in RaceStatuses : click(id, status) /\ SessionIdle
    \/ \E c \in hp_calls : put_served(c) /\ SessionIdle
    \/ \E c \in hp_calls : put_settled(c) /\ SessionIdle
    \/ \E c \in hp_calls : get_served(c) /\ SessionIdle
    \/ \E c \in hp_calls : get_settled(c) /\ SessionIdle
    \/ \E c \in hp_calls : call_failed(c) /\ SessionIdle

SpecRefresh == Init /\ [][NextRefresh]_vars

(***************************************************************************)
(* The client's session: localStorage, the AuthContext, the two axios      *)
(* interceptors and the routes.  What the backend answers to a request is  *)
(* taken from the written contract: a request to an endpoint other than    *)
(* signup and login is refused with 401 unless it carries a token the      *)
(* backend accepts.                                                        *)
(***************************************************************************)
\* the access tokens the backend issues
Tokens == {"t1", "t2"}

\* variant of the request interceptor: no header is set
Bearer_none(token) == {}

\* the Authorization header of a request sent while token is stored
Bearer(token) == {<< "Bearer", t >> : t \in token}

\* request interceptor: the request to endpoint, made by the caller by, as
\* it leaves the client
Request(seq, endpoint, by) ==
    [seq |-> seq, endpoint |-> endpoint, by |-> by,
     authorization |-> Bearer(ls_token)]

\* whether the backend accepts the credential of request r
Authorized(r) == \E h \in r.authorization : h[2] \in valid_tokens

\* the statuses the backend may answer r with, for an endpoint other than
\* signup and login
Statuses(r) == IF Authorized(r) THEN {200, 500} ELSE {401}

\* ProtectedRoute and PublicRoute: the path shown for path
Route(path, isAuthenticated, loading) ==
    IF loading THEN path
    ELSE IF path = "/login"
         THEN (IF isAuthenticated THEN "/dashboard" ELSE "/login")
    ELSE IF isAuthenticated THEN path ELSE "/login"

\* variant of ProtectedRoute: no spinner while loading
ProtectedRoute_no_spinner(children) ==
    IF auth_isAuthenticated THEN children ELSE "Navigate /login"

\* ProtectedRoute: what it renders around children
ProtectedRoute(children) ==
    IF auth_loading THEN "LoadingSpinner"
    ELSE IF auth_isAuthenticated THEN children ELSE "Navigate /login"

\* PublicRoute: what it renders around children
PublicRoute(children) ==
    IF auth_loading THEN "LoadingSpinner"
    ELSE IF ~auth_isAuthenticated THEN children ELSE "Navigate /dashboard"

\* the pages of the routes under ProtectedRoute
ProtectedPages == {"/dashboard", "/triage", "/history"}

\* App: what the routes render at location
Rendered ==
    IF location = "/login" THEN PublicRoute("Login")
    ELSE ProtectedRoute(location)

\* variant of the response interceptor: the saved user is left in place
Interceptor_keeps_user(status) ==
    IF status = 401
    THEN [token |-> {}, user |-> ls_user, unloading |-> TRUE]
    ELSE [token |-> ls_token, user |-> ls_user, unloading |-> unloading]

\* response interceptor: what it leaves in localStorage, and whether it
\* assigned window.location.href = '/login'
Interceptor(status) ==
    IF status = 401
    THEN [token |-> {}, user |-> {}, unloading |-> TRUE]
    ELSE [token |-> ls_token, user |-> ls_user, unloading |-> unloading]

\* the reply status to request r reaches the client: the interceptor runs
Received(r, status) ==
    /\ ~unloading
    /\ r \in wire
    /\ wire' = wire \ {r}
    /\ last_reply' = {[seq |-> r.seq, endpoint |-> r.endpoint, status |-> status]}
    /\ unloading' = Interceptor(status).unloading

\* the document loads at path: AuthProvider mounts and initAuth runs up to
\* its await.  The requests of the document before are gone with it.
LoadDocument(path) ==
    /\ unloading' = FALSE
    /\ auth_toast' = ""
    /\ IF ls_token # {} /\ ls_user # {}
       THEN /\ auth_user' = ls_user
            /\ auth_isAuthenticated' = TRUE
            /\ auth_loading' = TRUE
            /\ wire' = {Request(0, "/api/auth/me", "initAuth")}
            /\ location' = path
       ELSE /\ auth_user' = {}
            /\ auth_isAuthenticated' = FALSE
            /\ auth_loading' = FALSE
            /\ wire' = {}
            /\ location' = Route(path, FALSE, FALSE)
    /\ UNCHANGED << ls_token, ls_user, n_sent, last_reply, valid_tokens >>
    /\ UNCHANGED << dbvars, triagevars, historyvars, dashvars >>

\* the navigation the response interceptor asked for takes place
window_location_login == unloading /\ LoadDocument("/login")

\* the user opens the application, or reloads it
reload == ~unloading /\ LoadDocument(location)

\* variant of initAuth: logout() runs when the verification is refused with
\* 401 only
initAuth_settled_on_401(r, status) ==
    /\ r.by = "initAuth"
    /\ Received(r, status)
    /\ IF status # 401
       THEN /\ ls_token' = Interceptor(status).token
            /\ ls_user' = Interceptor(status).user
            /\ location' = Route(location, auth_isAuthenticated, FALSE)
            /\ UNCHANGED << auth_user, auth_isAuthenticated, auth_toast >>
       ELSE /\ ls_token' = {}
            /\ ls_user' = {}
            /\ auth_user' = {}
            /\ auth_isAuthenticated' = FALSE
            /\ auth_toast' = "Logged out successfully"
            /\ location' = "/login"
    /\ auth_loading' = FALSE
    /\ UNCHANGED << n_sent, valid_tokens >>
    /\ UNCHANGED << dbvars, triagevars, historyvars, dashvars >>

\* initAuth after its await: the token is verified, or logout() runs.  The
\* status 0 is a request without a response (a network error).
initAuth_settled(r, status) ==
    /\ r.by = "initAuth"
    /\ Received(r, status)
    /\ IF status = 200
       THEN /\ ls_token' = Interceptor(status).token
            /\ ls_user' = Interceptor(status).user
            /\ location' = Route(location, auth_isAuthenticated, FALSE)
            /\ UNCHANGED << auth_user, auth_isAuthenticated, auth_toast >>
       ELSE /\ ls_token' = {}
            /\ ls_user' = {}
            /\ auth_user' = {}
            /\ auth_isAuthenticated' = FALSE
            /\ auth_toast' = "Logged out successfully"
            /\ location' = "/login"
    /\ auth_loading' = FALSE
    /\ UNCHANGED << n_sent, valid_tokens >>
    /\ UNCHANGED << dbvars, triagevars, historyvars, dashvars >>

\* login(email, password) and signup(email, password) up to their await,
\* from the Login page
login(kind) ==
    /\ ~unloading /\ ~auth_loading /\ ~auth_isAuthenticated
    /\ location = "/login"
    /\ n_sent < MaxRequests
    /\ auth_loading' = TRUE
    /\ n_sent' = n_sent + 1
    /\ wire' = wire \cup {Request(n_sent + 1, "/api/auth/" \o kind, kind)}
    /\ UNCHANGED << ls_token, ls_user, auth_user, auth_isAuthenticated,
                    auth_toast, location, unloading, last_reply, valid_tokens >>
    /\ UNCHANGED << dbvars, triagevars, historyvars, dashvars >>

\* variant of login and signup: the user of the reply is not saved to
\* localStorage
login_succeeded_user_not_saved(r, access_token, user) ==
    /\ r.by \in {"login", "signup"}
    /\ Received(r, 200)
    /\ valid_tokens' = valid_tokens \cup {access_token}
    /\ ls_token' = {access_token}
    /\ auth_user' = {user}
    /\ auth_isAuthenticated' = TRUE
    /\ auth_toast' = IF r.by = "login" THEN "Login successful!"
                     ELSE "Account created successfully!"
    /\ location' = "/dashboard"
    /\ auth_loading' = FALSE
    /\ UNCHANGED << ls_user, n_sent >>
    /\ UNCHANGED << dbvars, triagevars, historyvars, dashvars >>

\* login and signup after their await, the backend accepting the
\* credentials and answering {access_token, user}
login_succeeded(r, access_token, user) ==
    /\ r.by \in {"login", "signup"}
    /\ Received(r, 200)
    /\ valid_tokens' = valid_tokens \cup {access_token}
    /\ ls_token' = {access_token}
    /\ ls_user' = {user}
    /\ auth_user' = {user}
    /\ auth_isAuthenticated' = TRUE
    /\ auth_toast' = IF r.by = "login" THEN "Login successful!"
                     ELSE "Account created successfully!"
    /\ location' = "/dashboard"
    /\ auth_loading' = FALSE
    /\ UNCHANGED n_sent
    /\ UNCHANGED << dbvars, triagevars, historyvars, dashvars >>

\* login and signup after their await, the backend refusing the
\* credentials (401) or the request (400)
login_failed(r, status) ==
    /\ r.by \in {"login", "signup"}
    /\ Received(r, status)
    /\ ls_token' = Interceptor(status).token
    /\ ls_user' = Interceptor(status).user
    /\ auth_toast' = "AuthError"
    /\ auth_loading' = FALSE
    /\ location' = Route(location, auth_isAuthenticated, FALSE)
    /\ UNCHANGED << auth_user, auth_isAuthenticated, n_sent, valid_tokens >>
    /\ UNCHANGED << dbvars, triagevars, historyvars, dashvars >>

\* variant of logout: mediconnect_user is left in localStorage
logout_keeps_user ==
    /\ ~unloading /\ ~auth_loading /\ auth_isAuthenticated
    /\ ls_token' = {}
    /\ auth_user' = {}
    /\ auth_isAuthenticated' = FALSE
    /\ auth_toast' = "Logged out successfully"
    /\ location' = "/login"
    /\ UNCHANGED << ls_user, auth_loading, unloading, wire, n_sent, last_reply,
                    valid_tokens >>
    /\ UNCHANGED << dbvars, triagevars, historyvars, dashvars >>

\* logout(), from the layout of the protected pages
logout ==
    /\ ~unloading /\ ~auth_loading /\ auth_isAuthenticated
    /\ ls_token' = {}
    /\ ls_user' = {}
    /\ auth_user' = {}
    /\ auth_isAuthenticated' = FALSE
    /\ auth_toast' = "Logged out successfully"
    /\ location' = "/login"
    /\ UNCHANGED << auth_loading, unloading, wire, n_sent, last_reply,
                    valid_tokens >>
    /\ UNCHANGED << dbvars, triagevars, historyvars, dashvars >>

\* logout() called once more, by a component that is handed it by the
\* context while nobody is signed in
logout_again ==
    /\ ~unloading /\ ~auth_loading /\ ~auth_isAuthenticated
    /\ ls_token' = {}
    /\ ls_user' = {}
    /\ auth_user' = {}
    /\ auth_isAuthenticated' = FALSE
    /\ auth_toast' = "Logged out successfully"
    /\ location' = "/login"
    /\ UNCHANGED << auth_loading, unloading, wire, n_sent, last_reply,
                    valid_tokens >>
    /\ UNCHANGED << dbvars, triagevars, historyvars, dashvars >>

\* a link of the layout to another protected page
navigate(path) ==
    /\ ~unloading
    /\ Rendered \in ProtectedPages
    /\ path \in ProtectedPages \ {location}
    /\ location' = path
    /\ UNCHANGED << ls_token, ls_user, auth_user, auth_isAuthenticated,
                    auth_loading, auth_toast, unloading, wire, n_sent,
                    last_reply, valid_tokens >>
    /\ UNCHANGED << dbvars, triagevars, historyvars, dashvars >>

\* a protected page sends a request of its own (history, stats, assess,
\* resolution)
page_request(endpoint) ==
    /\ ~unloading /\ ~auth_loading /\ auth_isAuthenticated
    /\ location # "/login"
    /\ n_sent < MaxRequests
    /\ n_sent' = n_sent + 1
    /\ wire' = wire \cup {Request(n_sent + 1, endpoint, "page")}
    /\ UNCHANGED << ls_token, ls_user, auth_user, auth_isAuthenticated,
                    auth_loading, auth_toast, location, unloading, last_reply,
                    valid_tokens >>
    /\ UNCHANGED << dbvars, triagevars, historyvars, dashvars >>

\* the reply to a page's request reaches the client
page_settled(r, status) ==
    /\ r.by = "page"
    /\ Received(r, status)
    /\ ls_token' = Interceptor(status).token
    /\ ls_user' = Interceptor(status).user
    /\ UNCHANGED << auth_user, auth_isAuthenticated, auth_loading, auth_toast,
                    location, n_sent, valid_tokens >>
    /\ UNCHANGED << dbvars, triagevars, historyvars, dashvars >>

\* the backend stops accepting a token (it expires, or is revoked)
token_expires(t) ==
    /\ t \in valid_tokens
    /\ valid_tokens' = valid_tokens \ {t}
    /\ UNCHANGED << ls_token, ls_user, auth_user, auth_isAuthenticated,
                    auth_loading, auth_toast, location, unloading, wire, n_sent,
                    last_reply >>
    /\ UNCHANGED << dbvars, triagevars, historyvars, dashvars >>

NextSession ==
    \/ window_location_login
    \/ reload
    \/ \E r \in wire : \E status \in Statuses(r) \cup {0} :
          initAuth_settled(r, status)
    \/ \E kind \in {"login", "signup"} : login(kind)
    \/ \E r \in wire, t \in Tokens, u \in Users : login_succeeded(r, t, u)
    \/ \E r \in wire, status \in {400, 401} : login_failed(r, status)
    \/ logout
    \/ logout_again
    \/ \E path \in ProtectedPages : navigate(path)
    \/ page_request("/api/history/")
    \/ \E r \in wire : \E status \in Statuses(r) : page_settled(r, status)
    \/ \E t \in Tokens : token_expires(t)

\* the navigation the interceptor asked for does take place
SpecSession == Init /\ [][NextSession]_vars /\ WF_vars(window_location_login)

\* the document is about to load in a browser whose localStorage holds what
\* earlier documents left: a token, a saved user, both or none, the token
\* being one the backend still accepts or not
StoredSession ==
    /\ ls_token \in {{}, {"t1"}}
    /\ ls_user \in {{}, {"A"}}
    /\ valid_tokens \in {{}, {"t1"}}
    /\ auth_user = {}
    /\ auth_isAuthenticated = FALSE
    /\ auth_loading = TRUE
    /\ auth_toast = ""
    /\ location = "/login"
    /\ unloading = FALSE
    /\ wire = {}
    /\ n_sent = 0
    /\ last_reply = {}

InitStored == InitDb /\ InitPages /\ StoredSession

SpecStored == InitStored /\ [][NextSession]_vars

(***************************************************************************)
(* Properties of the storage layer, under Spec.                            *)
(***************************************************************************)
ReadOps == {"select", "user_symptom_stats", "get_user_recent_symptoms"}

\* C1: no read available to an authenticated caller returns data taken from
\* a row of another user.
C1_NoForeignRead ==
    response.op \in ReadOps =>
        \A i \in response.from : symptom_logs[i].user_id = response.caller

\* C3: every stored row has urgency_level among the five levels and
\* resolution_status among the five statuses (never NULL), whatever insert
\* or update produced it.
C3_ValuesInFixedSets ==
    \A i \in DOMAIN symptom_logs :
        /\ symptom_logs[i].urgency_level \in UrgencyLevels
        /\ symptom_logs[i].resolution_status \in ResolutionStatuses

\* the rows stored before and after a step
Kept == DOMAIN symptom_logs \cap DOMAIN symptom_logs'

\* the columns other than resolution_status and updated_at are as before
SameButStatus(old, new) ==
    new = [old EXCEPT !.resolution_status = new.resolution_status,
                      !.updated_at = new.updated_at]

Frame(row) ==
    << row.symptoms, row.urgency_level, row.explanation, row.confidence,
       row.user_id, row.created_at >>

\* C10: after it is created, a row's symptoms, urgency_level, explanation,
\* confidence, user_id and created_at never change and the row is never
\* removed by an operation a user can perform.
C10_RowsFrozen ==
    [][\A i \in DOMAIN symptom_logs :
          /\ i \in DOMAIN symptom_logs'
          /\ Frame(symptom_logs'[i]) = Frame(symptom_logs[i])]_vars

\* C10, amended: those columns change and the row is removed only by a
\* direct UPDATE or DELETE statement of the row's owner, which the row
\* policies allow; not by another user, and not by the application's
\* resolution update.  user_id never changes.
C10_OnlyOwnerStatements ==
    [][\A i \in DOMAIN symptom_logs :
          /\ (i \notin DOMAIN symptom_logs'
                \/ Frame(symptom_logs'[i]) # Frame(symptom_logs[i]))
             => /\ response'.op \in {"update", "delete"}
                /\ response'.caller = symptom_logs[i].user_id
                /\ i \in response'.from
          /\ i \in DOMAIN symptom_logs'
                => symptom_logs'[i].user_id = symptom_logs[i].user_id]_vars

\* a user has tried to delete a row of another user, which is still stored
\* with its owner
C10_Witness ==
    /\ response.op = "delete" /\ response.from = {}
    /\ \E i \in DOMAIN symptom_logs : symptom_logs[i].user_id # response.caller

(***************************************************************************)
(* Properties of the application's API functions, under SpecApi.           *)
(***************************************************************************)
IsResolutionUpdate(rep) == rep.op = "updateResolutionStatus"

\* C2: a resolution update by a user for an id whose row is another user's,
\* or of no row, is rejected with a not-found error and changes no row.
\* (When the status is not a recognised one either, it is rejected all the
\* same, with one of the two errors.)
C2_ForeignUpdateRejected ==
    [][(/\ IsResolutionUpdate(response')
        /\ response'.request.symptom_log_id \notin IdsOf(response'.caller))
       => /\ symptom_logs' = symptom_logs
          /\ response'.error # ""
          /\ response'.request.resolution_status \in ResolutionStatuses
                => response'.error = "NotFoundError"]_vars

\* a user was refused the update of a stored row of another user
C2_Witness ==
    /\ IsResolutionUpdate(response)
    /\ response.error = "NotFoundError"
    /\ response.request.symptom_log_id \in DOMAIN symptom_logs
    /\ symptom_logs[response.request.symptom_log_id].user_id # response.caller

\* C5: a row created by the assess call has resolution_status Unknown.
C5_CreatedUnknown ==
    [][response'.op = "assessSymptoms"
          => \A i \in DOMAIN symptom_logs' \ DOMAIN symptom_logs :
                symptom_logs'[i].resolution_status = "Unknown"]_vars

\* an assess call has just stored a row
C5_Witness ==
    /\ response.op = "assessSymptoms" /\ response.error = ""
    /\ \E i \in response.from :
          /\ symptom_logs[i].created_at = now
          /\ symptom_logs[i].resolution_status = "Unknown"

\* C7: applying to an owned row the status it already has is accepted and
\* changes nothing of the table but that row's updated_at, which advances.
C7_Idempotent ==
    [][(/\ IsResolutionUpdate(response')
        /\ response'.request.symptom_log_id \in IdsOf(response'.caller)
        /\ symptom_logs[response'.request.symptom_log_id].resolution_status
              = response'.request.resolution_status)
       => LET i == response'.request.symptom_log_id
          IN  /\ response'.error = ""
              /\ symptom_logs' = [symptom_logs EXCEPT ![i].updated_at = now']
              /\ symptom_logs'[i].updated_at > symptom_logs[i].updated_at]_vars

\* the same status has been applied to a row twice through the API
C7_Witness ==
    \E t \in last_trigger :
        /\ IsResolutionUpdate(response) /\ response.error = ""
        /\ t.new.id \in response.from
        /\ t.old.resolution_status = t.new.resolution_status
        /\ t.old.resolution_status # "Unknown"
        /\ t.old.updated_at > t.old.created_at
        /\ t.new.updated_at > t.old.updated_at

\* C8: a resolution update with a status outside the five is rejected with
\* a validation error and changes no row.
C8_InvalidStatusRejected ==
    [][(/\ IsResolutionUpdate(response')
        /\ response'.request.resolution_status \notin ResolutionStatuses)
       => /\ response'.error = "ValidationError"
          /\ symptom_logs' = symptom_logs]_vars

\* an owner was refused an unrecognised status for a stored row of theirs
C8_Witness ==
    /\ IsResolutionUpdate(response)
    /\ response.error = "ValidationError"
    /\ response.request.resolution_status \notin ResolutionStatuses
    /\ response.request.symptom_log_id \in IdsOf(response.caller)

(***************************************************************************)
(* Properties of the Triage page, under SpecTriage.                        *)
(***************************************************************************)
\* the text is empty or white space only
AllSpace(text) == \A k \in 1..Len(text) : text[k] = " "

\* C4: a submit of the triage form with a text that is empty or white space
\* only is rejected with the validation message before any call: no POST is
\* sent, no row is created, result stays unset and loading stays false; and
\* no POST in flight ever carries such a text.
C4_BlankSubmitRejected ==
    [][/\ (handleSubmit /\ AllSpace(tp_symptoms))
          => /\ tp_toast' = "Please describe your symptoms"
             /\ tp_request = {} /\ tp_request' = {}
             /\ symptom_logs' = symptom_logs /\ next_id' = next_id
             /\ response' = response
             /\ tp_result' = {} /\ tp_loading' = FALSE
       /\ \A r \in tp_request' : ~AllSpace(r.symptoms)]_vars

\* the latest submit was of a text of white space only, and was rejected
C4_Witness ==
    /\ \E text \in tp_submitted : AllSpace(text) /\ text # << >>
    /\ tp_toast = "Please describe your symptoms"
    /\ tp_request = {} /\ ~tp_loading /\ tp_result = {}

(***************************************************************************)
(* Properties of the History page, under SpecHistory.                      *)
(***************************************************************************)
\* the click on the button t of the listed item i is possible and leaves
\* the row in status t
CanMove(i, t) ==
    ENABLED (/\ ClickStatus(i, t)
             /\ response'.error = ""
             /\ symptom_logs'[i].resolution_status = t)

OfferedStatuses == ResolutionStatuses \ {"Unknown"}

C11_ConfidenceInUnitRange ==
    \A i \in DOMAIN symptom_logs :
        \A c \in symptom_logs[i].confidence : 0 <= c /\ c <= 100

(***************************************************************************)
(* Properties of the client's session, under SpecSession.                  *)
(***************************************************************************)
\* the latest reply a request got was a 401
Got401 == \E rep \in last_reply : rep.status = 401

\* the session context has ended, at the login page
SessionEnded ==
    /\ ~unloading
    /\ location = "/login"
    /\ auth_user = {} /\ ~auth_isAuthenticated

\* C12: when a request of the client is answered 401, both
\* mediconnect_token and mediconnect_user are removed from localStorage and
\* the client goes to /login, where the session context ends with user null
\* and isAuthenticated false.
C12_SessionClearedOn401 ==
    /\ [](Got401 => /\ ls_token = {} /\ ls_user = {}
                     /\ (unloading \/ SessionEnded))
    /\ (Got401 ~> (Got401 => SessionEnded))

\* a request of a page was answered 401 while the context held a user, and
\* the client has arrived at /login with the session ended
C12_Witness ==
    /\ \E rep \in last_reply : rep.status = 401 /\ rep.endpoint = "/api/history/"
    /\ SessionEnded /\ ~auth_loading
    /\ ls_token = {} /\ ls_user = {}

\* C13: every request leaves the client with the header Authorization:
\* Bearer <token> for the token stored at the moment it is sent, and with no
\* such header when none is stored; a request to an endpoint other than
\* signup and login sent while a token is stored carries that token.
C13_BearerIsStoredToken ==
    [][\A r \in wire' \ wire :
          /\ r.authorization = {<< "Bearer", t >> : t \in ls_token}
          /\ (r.by \notin {"login", "signup"} /\ ls_token # {})
                => r.authorization # {}]_vars

\* after two requests of login or signup, a page's request is in flight
\* with the token now stored, which is not the only one the backend issued
C13_Witness ==
    \E r \in wire :
        /\ r.by = "page" /\ r.seq = 3
        /\ \E t \in ls_token : r.authorization = {<< "Bearer", t >>}
        /\ Cardinality(valid_tokens) = 2

(***************************************************************************)
(* Properties of the pages' failure handling, under SpecHistory.           *)
(***************************************************************************)
\* C14: a failure of a call made for a user action is shown to the user as
\* a failure; for the history load: after a load that failed, the page does
\* not show the 'No assessments yet' state of a user without data.
C14_FailureIsShown ==
    [][fetchData_failed => HistoryView'.heading # "No assessments yet"]_vars

C16_OnePostPerSubmit ==
    [][/\ (handleSubmit /\ ~AllSpace(tp_symptoms))
          => /\ tp_request = {}
             /\ Cardinality(tp_request') = 1
             /\ symptom_logs' = symptom_logs
       /\ (tp_request' # {} /\ tp_request' # tp_request)
          => /\ ~tp_loading /\ tp_loading'
             /\ tp_submitted' = {tp_symptoms}
             /\ ~AllSpace(tp_symptoms)
       /\ (~tp_loading') => tp_request' = {}
       /\ symptom_logs' # symptom_logs
          => /\ Cardinality(tp_request) = 1 /\ tp_request' = {}
             /\ Cardinality(DOMAIN symptom_logs')
                   = Cardinality(DOMAIN symptom_logs) + 1]_vars

\* a submit created a row, and a later submit failed: its failure is shown
\* and no POST is in flight
C16_Witness ==
    /\ DOMAIN symptom_logs # {}
    /\ tp_toast = "Assessment failed"
    /\ ~tp_loading /\ tp_request = {}
    /\ \E text \in tp_submitted : ~AllSpace(text)

\* C17: when the POST succeeds, the page leaves the input state and shows
\* the body of the reply: the step of handleSubmit that ends a call with
\* the success toast sets result, the form being rendered while result is
\* unset.
C17_ResultShownOnSuccess ==
    [][(tp_loading /\ ~tp_loading' /\ tp_toast' = "Assessment completed!")
          => tp_result' # {}]_vars

(***************************************************************************)
(* Properties of the lists the pages show, under SpecDashboard.            *)
(***************************************************************************)
\* the bodies GET /api/history/?limit=n can answer the page's user with
HistoryLists(n) == {h.data : h \in backend_history(symptom_logs, PageUser, n)}

\* C18: when the history request succeeds with the list L, the History page
\* (limit 50) and the Dashboard's recent list (limit 5) show L in its order,
\* and 'No assessments yet' when L is empty.
C18_PagesShowTheList ==
    [][/\ fetchData
          => /\ HistoryView'.items \in HistoryLists(HistoryLimit)
             /\ HistoryView'.items = << >>
                   => HistoryView'.heading = "No assessments yet"
       /\ fetchDashboardData
          => /\ DashboardView'.items \in HistoryLists(DashboardLimit)
             /\ DashboardView'.items = << >>
                   => DashboardView'.heading = "No assessments yet"]_vars

(***************************************************************************)
(* Properties of the history query, under Spec.                            *)
(***************************************************************************)
\* the reply resp is what the claim requires of a query for the rows of u
\* with the limit n, the table being symptom_logs
RecentOf(resp, u, n) ==
    LET mine == {i \in DOMAIN symptom_logs : symptom_logs[i].user_id = u}
        count == Cardinality(mine)
        rows == resp.data
    IN  /\ Len(rows) = (IF n < count THEN n ELSE count)
        /\ resp.from \subseteq mine
        /\ Cardinality(resp.from) = Len(rows)
        /\ \A k \in 1..Len(rows) :
              \E i \in resp.from :
                 /\ rows[k].created_at = symptom_logs[i].created_at
                 /\ rows[k].symptoms = symptom_logs[i].symptoms
        /\ \A j, k \in 1..Len(rows) :
              j < k => rows[j].created_at >= rows[k].created_at
        /\ \A i \in mine \ resp.from :
              \A k \in 1..Len(rows) :
                 symptom_logs[i].created_at <= rows[k].created_at

\* C19: a history query for the user u with the limit n returns min(n,
\* number of u's rows) rows, all of them rows of u, in non-increasing order
\* of created_at, and no row of u that is left out is newer than a row
\* returned.
C19_NewestRowsOfUser ==
    [][\A uid, u \in Users, n \in Limits :
          get_user_recent_symptoms(uid, u, n) => RecentOf(response', u, n)]_vars

\* a query with limit 1 returned one of the two rows of a user
C19_Witness ==
    /\ response.op = "get_user_recent_symptoms"
    /\ Len(response.data) = 1
    /\ \E u \in Users :
          /\ response.from \subseteq IdsOf(u)
          /\ Cardinality(IdsOf(u)) = 2

(***************************************************************************)
(* Properties of the statistics, under SpecApi.                            *)
(***************************************************************************)
\* C20: after any sequence of creations and resolution updates, the
\* statistics of a user are the total, the count for each urgency level,
\* the count for each resolution status and a most frequent urgency level
\* of exactly the rows of that user in the table as it is; and the row of
\* the view user_symptom_stats for that user has the same total and the
\* same counts for the urgency levels.
C20_StatsOverOwnRows ==
    \A u \in Users :
        LET mine == {i \in DOMAIN symptom_logs : symptom_logs[i].user_id = u}
            level(l) == Cardinality({i \in mine :
                                       symptom_logs[i].urgency_level = l})
            status(r) == Cardinality({i \in mine :
                                        symptom_logs[i].resolution_status = r})
            stats == backend_stats(symptom_logs, u).data
        IN  /\ stats.total_assessments = Cardinality(mine)
            /\ \A l \in UrgencyLevels : stats.urgency_distribution[l] = level(l)
            /\ \A r \in ResolutionStatuses :
                  stats.resolution_distribution[r] = status(r)
            /\ Cardinality(stats.most_common_urgency) <= 1
            /\ mine = {} <=> stats.most_common_urgency = {}
            /\ \A l \in stats.most_common_urgency :
                  \A m \in UrgencyLevels : level(m) <= level(l)
            /\ mine # {} <=> \E v \in user_symptom_stats : v.user_id = u
            /\ \A v \in user_symptom_stats :
                  v.user_id = u
                  => /\ v.total_assessments = Cardinality(mine)
                     /\ v.emergency_count = level("Emergency")
                     /\ v.urgent_count = level("Urgent")
                     /\ v.primary_care_count = level("Primary Care")
                     /\ v.telehealth_count = level("Telehealth")
                     /\ v.self_care_count = level("Self-Care")

\* each of the two users has an assessment, of different urgency levels,
\* and the resolution status of one of them was updated
C20_Witness ==
    \E i, j \in DOMAIN symptom_logs :
        /\ symptom_logs[i].user_id = "A" /\ symptom_logs[j].user_id = "B"
        /\ symptom_logs[i].urgency_level # symptom_logs[j].urgency_level
        /\ symptom_logs[i].resolution_status = "Improved"
        /\ backend_stats(symptom_logs, "A").data.total_assessments = 1

(***************************************************************************)
(* Properties of logout, login and signup, under SpecSession.              *)
(***************************************************************************)
\* the session is cleared and the client is at /login
SessionCleared ==
    /\ ls_token = {} /\ ls_user = {}
    /\ auth_user = {} /\ ~auth_isAuthenticated
    /\ location = "/login"

\* C21: after logout, whatever the state before, mediconnect_token and
\* mediconnect_user are absent from localStorage, the context has user null
\* and isAuthenticated false, and the client is at /login; and logout
\* called again in the state a logout left changes nothing.
C21_LogoutClearsSession ==
    [][/\ (logout \/ logout_again) => SessionCleared'
       /\ (SessionCleared /\ auth_toast = "Logged out successfully"
             /\ logout_again)
          => UNCHANGED vars]_vars

\* a user who was signed in, with requests sent, logged out
C21_Witness ==
    /\ SessionCleared
    /\ auth_toast = "Logged out successfully"
    /\ valid_tokens # {}
    /\ n_sent > 1
    /\ ~unloading /\ ~auth_loading

\* C22: after a login or signup that succeeds with {access_token, user},
\* the stored token is access_token, the stored user is user, the context
\* has that user with isAuthenticated true and loading false, and the
\* client is at /dashboard, whatever was stored before the call.
C22_LoginStoresSession ==
    [][\A r \in wire, access_token \in Tokens, user \in Users :
          login_succeeded(r, access_token, user)
          => /\ ls_token' = {access_token}
             /\ ls_user' = {user}
             /\ auth_user' = {user}
             /\ auth_isAuthenticated' /\ ~auth_loading'
             /\ location' = "/dashboard"]_vars

\* B is signed in with the token t2, while the token t1 of an earlier
\* session is still accepted by the backend
C22_Witness ==
    /\ ls_token = {"t2"} /\ ls_user = {"B"}
    /\ auth_user = {"B"} /\ auth_isAuthenticated /\ ~auth_loading
    /\ location = "/dashboard"
    /\ "t1" \in valid_tokens
    /\ \E rep \in last_reply : rep.status = 200 /\ rep.endpoint # "/api/auth/me"

(***************************************************************************)
(* Properties of the routes and of the startup, under SpecSession and      *)
(* SpecStored.                                                             *)
(***************************************************************************)
\* C23: a protected page (dashboard, triage, history) is rendered only
\* while loading is false and isAuthenticated is true; and while the
\* verification of a stored token (GET /api/auth/me) is in flight no
\* protected page is rendered, isAuthenticated being true already.
C23_ProtectedNeedsSession ==
    /\ Rendered \in ProtectedPages => (~auth_loading /\ auth_isAuthenticated)
    /\ (\E r \in wire : r.by = "initAuth")
          => /\ Rendered \notin ProtectedPages
             /\ auth_isAuthenticated

\* the document was reloaded at a protected page with a stored session,
\* and the verification is in flight
C23_Witness ==
    /\ location = "/history"
    /\ \E r \in wire : r.by = "initAuth"
    /\ auth_isAuthenticated /\ auth_loading
    /\ Rendered = "LoadingSpinner"

\* C24: when the verification of the stored token at startup fails, by a
\* 401, by a server error or without a response, the stored session is
\* cleared and the client is unauthenticated at /login with loading false;
\* and a document that loads with only one of the token and the saved user
\* stored is unauthenticated with loading false, and sends no verification
\* request.
C24_StartupFailureClears ==
    [][/\ \A r \in wire, status \in {0, 401, 500} :
             initAuth_settled(r, status)
             => SessionCleared' /\ ~auth_loading'
       /\ ((reload \/ window_location_login)
              /\ (ls_token = {}) # (ls_user = {}))
          => /\ auth_user' = {} /\ ~auth_isAuthenticated' /\ ~auth_loading'
             /\ wire' = {}
             /\ Rendered' = "Login"]_vars

\* the verification of a stored token that the backend accepts got no
\* response, and the session is cleared
C24_Witness ==
    /\ \E rep \in last_reply : rep.endpoint = "/api/auth/me" /\ rep.status = 0
    /\ "t1" \in valid_tokens
    /\ SessionCleared /\ ~auth_loading
    /\ auth_toast = "Logged out successfully"

\* C25: a login or signup that fails leaves the session as it was: nothing
\* in localStorage changes, user and isAuthenticated keep their values, the
\* error is shown to the user, in a document that stays, and loading is
\* false afterwards.
C25_FailedLoginKeepsSession ==
    [][\A r \in wire, status \in {400, 401} :
          login_failed(r, status)
          => /\ ls_token' = ls_token /\ ls_user' = ls_user
             /\ auth_user' = auth_user
             /\ auth_isAuthenticated' = auth_isAuthenticated
             /\ auth_toast' = "AuthError"
             /\ ~unloading'
             /\ ~auth_loading']_vars

(***************************************************************************)
(* Properties of the requests in flight, under SpecTriage.                 *)
(***************************************************************************)
\* C26: at most one assessment request of the Triage page is in flight at
\* any time, and only while loading is true; while loading is true no
\* submission is started and the text cannot be edited; and the step that
\* takes the response, success or failure, sets loading to false.
C26_OneRequestInFlight ==
    /\ [](Cardinality(tp_request) <= 1 /\ (tp_request # {} <=> tp_loading))
    /\ [][/\ tp_loading
             => /\ tp_request' \subseteq tp_request
                /\ tp_submitted' = tp_submitted
                /\ tp_symptoms' = tp_symptoms
          /\ (tp_request # {} /\ tp_request' = {}) => ~tp_loading']_vars

\* a first request was answered, and a second one is in flight
C26_Witness ==
    /\ tp_loading /\ Cardinality(tp_request) = 1
    /\ tp_toast = "Assessment completed!"
    /\ DOMAIN symptom_logs # {}

(***************************************************************************)
(* Properties of overlapping resolution updates, under SpecRace and        *)
(* SpecRefresh.                                                            *)
(***************************************************************************)
\* the page shows the table as it is, for the page's user
DisplayedIsStored ==
    /\ hp_history \in
          {Logs(historyAPI_getUserHistory(h).value) :
              h \in backend_history(symptom_logs, PageUser, HistoryLimit)}
    /\ hp_stats =
          {historyAPI_getUserStats(backend_stats(symptom_logs, PageUser)).value}

\* C27: once every resolution update started from the History page and
\* every refresh it triggered is over, the history and the statistics
\* shown are those of the stored state of the user, for every interleaving
\* of the calls and every order in which their replies arrive.
C27_DisplayedIsStored ==
    (~hp_loading /\ hp_clicks > 0 /\ hp_calls = {}) => DisplayedIsStored

\* C28: when a resolution update fails, or the refresh after an update
\* fails, the history and the statistics shown stay exactly as they were;
\* and a call replaces the two only together, by the two replies of one
\* refresh.
C28_FailureLeavesDisplay ==
    [][/\ \A c \in hp_calls :
             (call_failed(c) \/ (put_settled(c) /\ c.phase = "put_error"))
             => /\ hp_history' = hp_history
                /\ hp_stats' = hp_stats
       /\ (hp_calls' # hp_calls
              /\ (hp_history' # hp_history \/ hp_stats' # hp_stats))
          => \E c \in hp_calls :
                /\ c.phase = "got"
                /\ hp_history' = c.history
                /\ hp_stats' = c.stats]_vars

\* the update of a listed item was stored, the refresh after it failed, and
\* the page shows the item as it was
C28_Witness ==
    /\ ~hp_loading /\ hp_clicks > 0 /\ hp_calls = {}
    /\ Len(hp_history) > 0 /\ hp_stats # {}
    /\ \E k \in DOMAIN hp_history :
          /\ hp_history[k].resolution_status = "Unknown"
          /\ symptom_logs[hp_history[k].id].resolution_status = "Resolved"

SameLetter(a, b) == a = b \/ {a, b} = {"x", "X"} \/ {a, b} = {"y", "Y"}

\* text contains term, case apart
Contains(text, term) ==
    \E o \in 0..Len(text) :
        /\ o + Len(term) <= Len(text)
        /\ \A k \in 1..Len(term) : SameLetter(text[o + k], term[k])

\* the item is one the search term and the selected level ask for
Wanted(item) ==
    /\ Contains(item.symptoms, hp_searchTerm)
          \/ Contains(item.explanation, hp_searchTerm)
    /\ hp_filterLevel = "all" \/ item.urgency_level = hp_filterLevel

\* the list shown is the sub-sequence of the loaded history made of the
\* items wanted: its items are items of the history at increasing
\* positions, and these positions are those of the items wanted
VisibleIsWanted ==
    \E f \in [1..Len(Visible) -> 1..Len(hp_history)] :
        /\ \A j, k \in 1..Len(Visible) : j < k => f[j] < f[k]
        /\ \A k \in 1..Len(Visible) : Visible[k] = hp_history[f[k]]
        /\ {f[k] : k \in 1..Len(Visible)}
              = {i \in 1..Len(hp_history) : Wanted(hp_history[i])}

\* the search box is empty and every level is selected
NoFilter == hp_searchTerm = << >> /\ hp_filterLevel = "all"

\* C30: the list shown is the sub-sequence of the loaded history, in its
\* order, of the items whose symptoms or explanation contain the search
\* term, case apart, and whose level is the selected one (any level for
\* 'all'); it is the whole history for an empty term and 'all'; and the
\* loaded history never changes by filtering.
C30_VisibleIsFilteredHistory ==
    /\ [](VisibleIsWanted /\ (NoFilter => Visible = hp_history))
    /\ [][hp_history' = hp_history]_vars

\* a search term in upper case and a selected level leave one of two
\* loaded items, whose text has the letter in lower case
C30_Witness ==
    /\ hp_searchTerm = <<"X">> /\ hp_filterLevel = "Emergency"
    /\ Len(hp_history) = 2 /\ Len(Visible) = 1
    /\ hp_history[2].symptoms = <<"x">> /\ hp_history[2].explanation = <<"y">>
    /\ Visible[1] = hp_history[2]
    /\ hp_history[1].urgency_level = "Emergency"
    /\ hp_history[1].symptoms = <<"y", "y">>

====
